---- MODULE Spec2Model ----
(***************************************************************************)
(* A model of script.js, the lead-search front end: the search form, the   *)
(* attachment and its session cache, the primary / local / fallback search *)
(* flows with their asynchronous completions, the result table and the     *)
(* three exports.                                                          *)
(*                                                                         *)
(* Text is modelled as a sequence of one-character strings, so that        *)
(* toLowerCase, includes, endsWith, replace and join are computed as       *)
(* JavaScript computes them.                                               *)
(***************************************************************************)
EXTENDS Naturals, Sequences, FiniteSets, Bags, TLC

\* ---------------------------------------------------------------- bounds

\* Most asynchronous operations (file reads, requests) awaited at one time.
MaxPending == 2
\* Most records in a result sequence handed to the exports (SpecExport).
MaxRecords == 2
\* Most rows in the sheet of an attached file (SpecLocal).
MaxRows == 2

\* ------------------------------------------------------------------ text

UpperCase == <<"A","B","C","D","E","F","G","H","I","J","K","L","M",
               "N","O","P","Q","R","S","T","U","V","W","X","Y","Z">>
LowerCase == <<"a","b","c","d","e","f","g","h","i","j","k","l","m",
               "n","o","p","q","r","s","t","u","v","w","x","y","z">>

\* One character of String.prototype.toLowerCase: an upper-case letter
\* becomes its lower-case letter, any other character stays.
LowerOf ==
    [c \in {UpperCase[i] : i \in 1..26} |->
        LowerCase[CHOOSE i \in 1..26 : UpperCase[i] = c]]

LowerChar(c) == IF c \in DOMAIN LowerOf THEN LowerOf[c] ELSE c

toLowerCase(s) == [i \in 1..Len(s) |-> LowerChar(s[i])]

\* String.prototype.includes: sub occurs in s at some offset.
includes(s, sub) ==
    \E i \in 0..Len(s) :
        /\ i + Len(sub) <= Len(s)
        /\ SubSeq(s, i + 1, i + Len(sub)) = sub

\* String.prototype.endsWith
endsWith(s, suffix) ==
    /\ Len(suffix) <= Len(s)
    /\ SubSeq(s, Len(s) - Len(suffix) + 1, Len(s)) = suffix

\* Array.prototype.join on an array of texts.
RECURSIVE join(_, _)
join(parts, sep) ==
    IF Len(parts) = 0 THEN <<>>
    ELSE IF Len(parts) = 1 THEN parts[1]
    ELSE parts[1] \o sep \o join(Tail(parts), sep)

\* String.prototype.replace(/c/g, by): every character c becomes the text by.
RECURSIVE replaceAll(_, _, _)
replaceAll(s, c, by) ==
    IF s = <<>> THEN <<>>
    ELSE (IF Head(s) = c THEN by ELSE <<Head(s)>>) \o replaceAll(Tail(s), c, by)

\* The texts the program names.
s_name == <<"n","a","m","e">>
s_location == <<"l","o","c","a","t","i","o","n">>
s_technology == <<"t","e","c","h","n","o","l","o","g","y">>
s_email == <<"e","m","a","i","l">>
s_phone == <<"p","h","o","n","e">>
s_city == <<"c","i","t","y">>
s_tech == <<"t","e","c","h">>
s_skill == <<"s","k","i","l","l">>
s_mail == <<"m","a","i","l">>
s_mobile == <<"m","o","b","i","l","e">>
s_contact == <<"c","o","n","t","a","c","t">>
s_sheet == <<"s","h","e","e","t">>
s_excel == <<"e","x","c","e","l">>
s_csv == <<"c","s","v">>
s_dotcsv == <<".","c","s","v">>
s_dotxlsx == <<".","x","l","s","x">>
s_undefined == <<"u","n","d","e","f","i","n","e","d">>
s_dash == <<"-">>

\* ------------------------------------------------------- JavaScript values

\* A value is a text, a number (s holds its decimal digits) or undefined.
Str(s) == [k |-> "string", s |-> s]
Num(digits) == [k |-> "number", s |-> digits]
Undefined == [k |-> "undefined", s |-> <<>>]

\* String(v)
String(v) == IF v.k = "undefined" THEN s_undefined ELSE v.s

\* !v : the empty text, the number 0 and undefined are falsy.
Falsy(v) ==
    \/ v.k = "undefined"
    \/ v.k = "string" /\ v.s = <<>>
    \/ v.k = "number" /\ v.s = <<"0">>

\* a || b
Or(a, b) == IF Falsy(a) THEN b ELSE a

\* An object is the sequence of its own properties in insertion order.
Prop(key, val) == [key |-> key, val |-> val]

ObjectKeys(obj) == [i \in 1..Len(obj) |-> obj[i].key]

\* obj[key]: the property's value, undefined when obj has no such property.
Get(obj, key) ==
    IF \E i \in 1..Len(obj) : obj[i].key = key
    THEN obj[CHOOSE i \in 1..Len(obj) :
                 /\ obj[i].key = key
                 /\ \A j \in 1..(i - 1) : obj[j].key /= key].val
    ELSE Undefined

\* --------------------------------------------------- the local search path

\* Object.keys(row).find(k => k.toLowerCase().includes(part)): the position of
\* the first such key, 0 when find returns undefined.
FindKey(row, part) ==
    LET hits == {i \in 1..Len(row) : includes(toLowerCase(row[i].key), part)} IN
    IF hits = {} THEN 0
    ELSE CHOOSE i \in hits : \A j \in hits : i <= j

\* The key at a position FindKey gives: undefined where find found none.
KeyAt(row, i) == IF i = 0 THEN Undefined ELSE Str(row[i].key)

\* key ? String(row[key]).toLowerCase() : ""
getValueOf(row, key) ==
    IF ~Falsy(key) THEN toLowerCase(String(Get(row, key.s))) ELSE <<>>

\* getValue of the filter.
getValue(row, keyPrefix) == getValueOf(row, KeyAt(row, FindKey(row, keyPrefix)))

\* The predicate of jsonData.filter: the three comparison texts of the row,
\* the three lower-cased criteria, an empty criterion matching anything.
FilterRow(row, criteria) ==
    LET rowName == getValue(row, s_name)
        rowLocation == getValue(row, s_location)
        rowTech == Or(Str(getValue(row, s_tech)), Str(getValue(row, s_skill))).s
        searchName == toLowerCase(Or(Str(criteria.name), Str(<<>>)).s)
        searchLocation == toLowerCase(Or(Str(criteria.location), Str(<<>>)).s)
        searchTech == toLowerCase(Or(Str(criteria.technology), Str(<<>>)).s)
        matchName == searchName = <<>> \/ includes(rowName, searchName)
        matchLocation == searchLocation = <<>> \/ includes(rowLocation, searchLocation)
        matchTech == searchTech = <<>> \/ includes(rowTech, searchTech)
    IN matchName /\ matchLocation /\ matchTech

\* findVal of the mapping: row[key] || '', where key is undefined when no
\* header matches (row[undefined] reads the property named "undefined").
findVal(row, keyPart) ==
    Or(Get(row, String(KeyAt(row, FindKey(row, keyPart)))), Str(<<>>))

\* The record results.map builds from one row.
MapRow(row) ==
    << Prop(s_name, findVal(row, s_name)),
       Prop(s_location, Or(findVal(row, s_location), findVal(row, s_city))),
       Prop(s_technology, Or(findVal(row, s_tech), findVal(row, s_skill))),
       Prop(s_email, Or(findVal(row, s_email), findVal(row, s_mail))),
       Prop(s_phone, Or(Or(findVal(row, s_phone), findVal(row, s_mobile)),
                        findVal(row, s_contact))) >>

\* What the bytes of a file decode to: XLSX.read throws (ok = FALSE) or gives
\* a workbook whose first sheet sheet_to_json turns into rows.
Workbook(ok, rows) == [ok |-> ok, rows |-> rows]

\* reader.result of toBase64: the data URL "data:<type>;base64,<body>".
DataUrl(type, body) == [defined |-> TRUE, type |-> type, body |-> body]
\* payload.fileData of a payload without attachment.
NoFileData == [defined |-> FALSE, type |-> <<>>, body |-> Workbook(FALSE, <<>>)]

\* base64Data.split(',')[1] || base64Data, then XLSX.read of it.
cleanBase64(base64Data) == base64Data.body

\* processLocalFile: the promise rejects (ok = FALSE) when decoding throws,
\* and otherwise resolves with the mapped records of the rows that pass.
processLocalFile(base64Data, criteria) ==
    LET workbook == cleanBase64(base64Data) IN
    IF ~workbook.ok
    THEN [ok |-> FALSE, data |-> <<>>]
    ELSE LET jsonData == workbook.rows
             results == SelectSeq(jsonData, LAMBDA row : FilterRow(row, criteria))
         IN [ok |-> TRUE, data |-> [i \in 1..Len(results) |-> MapRow(results[i])]]

\* ------------------------------------------------------------ attachments

\* A File object: its name, its type and what its bytes decode to.
File(fileName, type, content) == [name |-> fileName, type |-> type, content |-> content]

\* The payload both handlers build from a read file.
FilePayload(file) ==
    [fileData |-> DataUrl(file.type, file.content),
     fileName |-> file.name,
     fileMimeType |-> file.type]

\* let filePayload = {}
EmptyPayload == [fileData |-> NoFileData, fileName |-> <<>>, fileMimeType |-> <<>>]

\* A faulty test, for contrast: the extension .xlsx is not recognised.
isExcelOrCsvByTypeOrCsvName(payload) ==
    LET fileType == Or(Str(payload.fileMimeType), Str(<<>>)).s IN
    \/ includes(fileType, s_sheet)
    \/ includes(fileType, s_excel)
    \/ includes(fileType, s_csv)
    \/ endsWith(payload.fileName, s_dotcsv)

\* isExcelOrCsv of handleSearch (case-sensitive, as written).
isExcelOrCsv(payload) ==
    LET fileType == Or(Str(payload.fileMimeType), Str(<<>>)).s IN
    \/ includes(fileType, s_sheet)
    \/ includes(fileType, s_excel)
    \/ includes(fileType, s_csv)
    \/ endsWith(payload.fileName, s_dotcsv)
    \/ endsWith(payload.fileName, s_dotxlsx)

\* A faulty validation, for contrast: the test of the attachment is inverted,
\* so an empty form without attachment passes.
ValidationFailsInverted(n, l, t, payload) ==
    n = <<>> /\ l = <<>> /\ t = <<>> /\ payload.fileData.defined

\* !name && !location && !technology && !payload.fileData
ValidationFails(n, l, t, payload) ==
    n = <<>> /\ l = <<>> /\ t = <<>> /\ ~payload.fileData.defined

\* ------------------------------------------------------------- constants

SHEET_WEBHOOK == "https://telsleadsfinders.vercel.app/"
REDROB_WEBHOOK == "YOUR_REDROB_WEBHOOK_URL_HERE"
TELEMETRY_WEBHOOK == "https://technoedge.app.n8n.cloud/webhook-test/tels-leads"

MsgValidation == "Please enter at least one search criteria or upload a file."
MsgFileFailed == "Failed to process file"
MsgSearchError == "An error occurred while searching."
MsgRedrobNone == "No data found on Redrob either."
MsgRedrobPlaceholder == "Error: Please replace Redrob Webhook URL in script.js."
MsgRedrobFailed == "Failed to search Redrob."
MsgStorageFull == "File too large to save for refresh, but search will work."
MsgCsv == "CSV Downloaded"
MsgExcel == "Excel Downloaded"
MsgPdf == "PDF Downloaded"
TextNoMatch == "No matching leads found"
TextStillNone == "Still no results"

\* ----------------------------------------------------------------- state

VARIABLES
    name, location, technology,  \* the values of the three form inputs
    fileInput,          \* fileInput.files: <<>> or <<file>>
    cachedFilePayload,  \* <<>> for null, else <<file>>: the payload of that file
    sessionStorage,     \* the item 'leads_file_payload': <<>> or <<file>>, likewise
    currentData,        \* the result sequence the exports read
    dom,                \* the classes, texts and flags the script sets
    pending,            \* the bag of awaited operations that have not settled
    toasts,             \* the notifications the latest handler run showed
    sent,               \* the requests the latest handler run issued
    downloads,          \* the files the latest handler run produced
    step,               \* which handler ran latest and how it ended
    exhausted           \* history: a fallback search has settled with no
                        \* record and the form has not been submitted since

vars == <<name, location, technology, fileInput, cachedFilePayload,
          sessionStorage, currentData, dom, pending,
          toasts, sent, downloads, step, exhausted>>

\* The variables a handler may change besides what it reports of itself.
programVars == <<name, location, technology, fileInput, cachedFilePayload,
                 sessionStorage, currentData, dom, pending>>

\* The page as index.html delivers it: every section hidden, the search
\* button enabled, the fallback button not hidden inside the hidden section.
InitialDom ==
    [tbody |-> <<>>,
     resultsSectionHidden |-> TRUE,
     noDataSectionHidden |-> TRUE,
     redrobSearchBtnHidden |-> FALSE,
     noDataText |-> TextNoMatch,
     searchBtnDisabled |-> FALSE,
     loadingStateHidden |-> TRUE,
     fileNameDisplay |-> <<>>]

\* What step holds: the handler, how its run ended, the route a submission
\* took and, for the run that routed a submission, its effective attachment.
StepWith(handler, outcome, route, attachment) ==
    [handler |-> handler, outcome |-> outcome, route |-> route,
     attachment |-> attachment]

Step(handler, outcome, route) == StepWith(handler, outcome, route, <<>>)

\* The mutable state a handler run threads through its calls; the outputs
\* start empty at every run.
Now ==
    [cachedFilePayload |-> cachedFilePayload,
     sessionStorage |-> sessionStorage,
     currentData |-> currentData,
     dom |-> dom,
     pending |-> pending,
     toasts |-> <<>>,
     sent |-> <<>>,
     downloads |-> <<>>]

Commit(m) ==
    /\ cachedFilePayload' = m.cachedFilePayload
    /\ sessionStorage' = m.sessionStorage
    /\ currentData' = m.currentData
    /\ dom' = m.dom
    /\ pending' = m.pending
    /\ toasts' = m.toasts
    /\ sent' = m.sent
    /\ downloads' = m.downloads

\* An awaited operation and the locals its continuation closes over.
Task(by, file, n, l, t) ==
    [by |-> by, file |-> file, name |-> n, location |-> l, technology |-> t]

await(m, task) == [m EXCEPT !.pending = @ (+) SetToBag({task})]
settle(m, task) == [m EXCEPT !.pending = @ (-) SetToBag({task})]

Room == BagCardinality(pending) < MaxPending

\* ------------------------------------------------------------ UI helpers

showNotification(m, message, type) ==
    [m EXCEPT !.toasts = Append(@, [message |-> message, type |-> type])]

showLoading(m) ==
    [m EXCEPT !.dom.searchBtnDisabled = TRUE,
              !.dom.loadingStateHidden =
                  IF m.dom.resultsSectionHidden THEN FALSE ELSE @]

\* A faulty hideLoading, for contrast: it hides the indicator and leaves the
\* button disabled.
hideLoadingIndicatorOnly(m) ==
    [m EXCEPT !.dom.loadingStateHidden = TRUE]

hideLoading(m) ==
    [m EXCEPT !.dom.searchBtnDisabled = FALSE,
              !.dom.loadingStateHidden = TRUE]

showNoData(m) ==
    [m EXCEPT !.dom.noDataText = TextNoMatch,
              !.dom.redrobSearchBtnHidden = FALSE,
              !.dom.noDataSectionHidden = FALSE]

resetUI(m) ==
    [m EXCEPT !.dom.resultsSectionHidden = TRUE,
              !.dom.noDataSectionHidden = TRUE,
              !.currentData = <<>>]

\* escapeHtml: the five replacements in the order the code applies them.
escapeHtml(text) ==
    LET s0 == String(text)
        s1 == replaceAll(s0, "&", <<"&","a","m","p",";">>)
        s2 == replaceAll(s1, "<", <<"&","l","t",";">>)
        s3 == replaceAll(s2, ">", <<"&","g","t",";">>)
        s4 == replaceAll(s3, "\"", <<"&","q","u","o","t",";">>)
    IN replaceAll(s4, "'", <<"&","#","0","3","9",";">>)

StartsWith(s, prefix) ==
    Len(prefix) <= Len(s) /\ SubSeq(s, 1, Len(prefix)) = prefix

\* The text of a cell whose innerHTML is the given markup: the parser turns
\* each character reference back into its character.
RECURSIVE HtmlText(_)
HtmlText(markup) ==
    LET drop(n) == SubSeq(markup, n + 1, Len(markup)) IN
    IF markup = <<>> THEN <<>>
    ELSE IF StartsWith(markup, <<"&","a","m","p",";">>) THEN <<"&">> \o HtmlText(drop(5))
    ELSE IF StartsWith(markup, <<"&","l","t",";">>) THEN <<"<">> \o HtmlText(drop(4))
    ELSE IF StartsWith(markup, <<"&","g","t",";">>) THEN <<">">> \o HtmlText(drop(4))
    ELSE IF StartsWith(markup, <<"&","q","u","o","t",";">>) THEN <<"\"">> \o HtmlText(drop(6))
    ELSE IF StartsWith(markup, <<"&","#","0","3","9",";">>) THEN <<"'">> \o HtmlText(drop(6))
    ELSE <<Head(markup)>> \o HtmlText(Tail(markup))

\* The five cells renderTable writes for one record.
RenderRow(row) ==
    << HtmlText(escapeHtml(Or(Get(row, s_name), Str(s_dash)))),
       HtmlText(escapeHtml(Or(Get(row, s_location), Str(s_dash)))),
       HtmlText(escapeHtml(Or(Get(row, s_technology), Str(s_dash)))),
       HtmlText(escapeHtml(Or(Get(row, s_email), Str(s_dash)))),
       HtmlText(escapeHtml(Or(Get(row, s_phone), Str(s_dash)))) >>

updateFileUI(m, fileName) == [m EXCEPT !.dom.fileNameDisplay = fileName]

\* A faulty saveFileToStorage, for contrast: the payload is cached in memory
\* before the write, so a write that throws leaves it cached.
saveFileToStorageCachedBeforeWrite(m, payload, quotaExceeded) ==
    IF quotaExceeded
    THEN showNotification([m EXCEPT !.cachedFilePayload = payload],
                          MsgStorageFull, "error")
    ELSE [m EXCEPT !.sessionStorage = payload,
                   !.cachedFilePayload = payload]

\* saveFileToStorage: setItem throws when the quota is exceeded, and then
\* neither the item nor cachedFilePayload is written.
saveFileToStorage(m, payload, quotaExceeded) ==
    IF quotaExceeded
    THEN showNotification(m, MsgStorageFull, "error")
    ELSE [m EXCEPT !.sessionStorage = payload,
                   !.cachedFilePayload = payload]

\* fetch(url, {method: 'POST', body}): the request leaves at the call.
fetch(m, url, n, l, t, payload, file) ==
    [m EXCEPT !.sent = Append(@, [url |-> url, name |-> n, location |-> l,
                                  technology |-> t, payload |-> payload,
                                  file |-> file])]

\* --------------------------------------------------------------- exports

fields == <<s_name, s_location, s_technology, s_email, s_phone>>

Download(format, header, rows, text) ==
    [format |-> format, header |-> header, rows |-> rows, text |-> text]

\* A faulty CsvValue, for contrast: wrapped in quotes, quotes not doubled.
CsvValueUnescaped(row, field) ==
    <<"\"">> \o String(Or(Get(row, field), Str(<<>>))) \o <<"\"">>

\* One value of a CSV row: quotes doubled, the whole wrapped in quotes.
CsvValue(row, field) ==
    LET val == Or(Get(row, field), Str(<<>>)) IN
    <<"\"">> \o replaceAll(String(val), "\"", <<"\"", "\"">>) \o <<"\"">>

CsvRow(row) == join([i \in 1..5 |-> CsvValue(row, fields[i])], <<",">>)

\* csvRows.join('\n'): the header row, then one row per record.
CsvString(data) ==
    join(<<join(fields, <<",">>)>> \o [i \in 1..Len(data) |-> CsvRow(data[i])],
         <<"\n">>)

downloadCSV(m) ==
    IF Len(m.currentData) = 0 THEN m
    ELSE showNotification(
             [m EXCEPT !.downloads = Append(@,
                 Download("csv", fields,
                          [i \in 1..Len(m.currentData) |->
                              [j \in 1..5 |->
                                  Str(String(Or(Get(m.currentData[i], fields[j]),
                                                Str(<<>>))))]],
                          CsvString(m.currentData)))],
             MsgCsv, "success")

\* The header row of XLSX.utils.json_to_sheet: every key of every record, in
\* the order of first appearance.
RECURSIVE SheetHeader(_, _)
SheetHeader(data, header) ==
    IF data = <<>> THEN header
    ELSE LET keys == ObjectKeys(Head(data))
             new == SelectSeq(keys, LAMBDA k : \A i \in 1..Len(header) : header[i] /= k)
         IN SheetHeader(Tail(data), header \o new)

downloadExcel(m) ==
    IF Len(m.currentData) = 0 THEN m
    ELSE LET header == SheetHeader(m.currentData, <<>>) IN
         showNotification(
             [m EXCEPT !.downloads = Append(@,
                 Download("xlsx", header,
                          [i \in 1..Len(m.currentData) |->
                              [j \in 1..Len(header) |->
                                  Get(m.currentData[i], header[j])]],
                          <<>>))],
             MsgExcel, "success")

\* The head and body handed to doc.autoTable.
PdfHead == <<"Name", "Location", "Technology", "Email", "Phone">>

\* A faulty downloadPDF, for contrast: the test of currentData.length is
\* missing.
downloadPDFUnguarded(m) ==
    showNotification(
        [m EXCEPT !.downloads = Append(@,
            Download("pdf", PdfHead,
                     [i \in 1..Len(m.currentData) |->
                         << Get(m.currentData[i], s_name),
                            Get(m.currentData[i], s_location),
                            Get(m.currentData[i], s_technology),
                            Get(m.currentData[i], s_email),
                            Get(m.currentData[i], s_phone) >>],
                     <<>>))],
        MsgPdf, "success")

downloadPDF(m) ==
    IF Len(m.currentData) = 0 THEN m
    ELSE showNotification(
             [m EXCEPT !.downloads = Append(@,
                 Download("pdf", PdfHead,
                          [i \in 1..Len(m.currentData) |->
                              << Get(m.currentData[i], s_name),
                                 Get(m.currentData[i], s_location),
                                 Get(m.currentData[i], s_technology),
                                 Get(m.currentData[i], s_email),
                                 Get(m.currentData[i], s_phone) >>],
                          <<>>))],
             MsgPdf, "success")

\* ---------------------------------------------------------------- inputs

t_austin == <<"a","u","s","t","i","n">>
t_jane == <<"j","a","n","e">>
t_go == <<"g","o">>

Criteria(n, l, t) == [name |-> n, location |-> l, technology |-> t]

\* What the user types into the form.
FormInputs ==
    { Criteria(<<>>, <<>>, <<>>),
      Criteria(<<>>, t_austin, <<>>) }

\* The rows files are made of: the row of the CSV with headers Full Name,
\* City, Skillset; a row under the headers Name, Location, Tech; a row whose
\* Location cell is empty beside a City cell; a row whose Tech cell is empty
\* beside a Skill cell and whose Location cell is the number 0; a row with
\* no header the normalizer knows; a row under a header that reads
\* "undefined".
RowPool ==
    << << Prop(<<"F","u","l","l"," ","N","a","m","e">>,
               Str(<<"J","a","n","e"," ","D","o","e">>)),
          Prop(<<"C","i","t","y">>, Str(<<"A","u","s","t","i","n">>)),
          Prop(<<"S","k","i","l","l","s","e","t">>, Str(<<"G","o">>)) >>,
       << Prop(<<"N","a","m","e">>, Str(<<"B","o","b">>)),
          Prop(<<"L","o","c","a","t","i","o","n">>,
               Str(<<"B","o","s","t","o","n">>)),
          Prop(<<"T","e","c","h">>, Str(<<"J","a","v","a">>)) >>,
       << Prop(<<"N","a","m","e">>, Str(<<"A","m","y">>)),
          Prop(<<"L","o","c","a","t","i","o","n">>, Str(<<>>)),
          Prop(<<"C","i","t","y">>, Str(<<"A","u","s","t","i","n">>)) >>,
       << Prop(<<"N","a","m","e">>, Str(<<"C","y">>)),
          Prop(<<"L","o","c","a","t","i","o","n">>, Num(<<"0">>)),
          Prop(<<"T","e","c","h">>, Str(<<>>)),
          Prop(<<"S","k","i","l","l">>, Str(<<"G","o">>)) >>,
       << Prop(<<"A","g","e">>, Num(<<"3","0">>)) >>,
       << Prop(s_undefined, Str(<<"x">>)) >> >>

\* The state holds a file, and a payload built from it, by the file's
\* description: its kind and the rows of its first sheet (positions in
\* RowPool). FileOf gives the File object described.
FileId(kind, rows) == [kind |-> kind, rows |-> rows]

FileOf(f) ==
    CASE f.kind = "csv" ->
           File(<<"l",".","c","s","v">>, <<"t","e","x","t","/","c","s","v">>,
                Workbook(TRUE, [i \in 1..Len(f.rows) |-> RowPool[f.rows[i]]]))
      \* A workbook that XLSX.read cannot decode, recognised by its extension.
      [] f.kind = "xlsx" ->
           File(<<"b",".","x","l","s","x">>, <<>>, Workbook(FALSE, <<>>))
      \* A workbook of the older Excel format, its type unknown to the browser.
      [] f.kind = "xls" ->
           File(<<"o",".","x","l","s">>, <<>>,
                Workbook(TRUE, [i \in 1..Len(f.rows) |-> RowPool[f.rows[i]]]))
      \* A file that is not spreadsheet-like.
      [] f.kind = "pdf" ->
           File(<<"n",".","p","d","f">>,
                <<"a","p","p","l","i","c","a","t","i","o","n","/","p","d","f">>,
                Workbook(FALSE, <<>>))

\* The payload an optional attachment stands for: {} when there is none.
PayloadOf(attachment) ==
    IF attachment = <<>> THEN EmptyPayload ELSE FilePayload(FileOf(attachment[1]))

LeadsCsv == FileId("csv", <<1>>)
BrokenXlsx == FileId("xlsx", <<>>)
NotesPdf == FileId("pdf", <<>>)
OldXls == FileId("xls", <<1>>)

Files == {LeadsCsv, BrokenXlsx, NotesPdf}

\* A record of a remote endpoint, with a key the table does not show.
RecAnn ==
    << Prop(s_name, Str(<<"A","n","n">>)),
       Prop(s_location, Str(<<"A","u","s","t","i","n">>)),
       Prop(<<"i","d">>, Num(<<"7">>)) >>

\* How a request settles: a 2xx response with a JSON array, or a failure
\* (a non-2xx status, a network error, a body that is not JSON).
Responses ==
    { [ok |-> TRUE, data |-> <<>>],
      [ok |-> TRUE, data |-> <<RecAnn>>],
      [ok |-> FALSE, data |-> <<>>] }

\* processLocalFile of each file's payload under each criteria, computed once.
LocalResults ==
    [file \in Files, criteria \in FormInputs |->
        processLocalFile(PayloadOf(<<file>>).fileData, criteria)]

\* The rows of the table for the records the searches above can give,
\* computed once.
RenderedRows ==
    LET Records(data) == {data[i] : i \in 1..Len(data)}
        results == {r.data : r \in Responses}
                   \cup {LocalResults[fc].data : fc \in DOMAIN LocalResults}
    IN [row \in UNION {Records(data) : data \in results} |-> RenderRow(row)]

renderTable(m, data) ==
    [m EXCEPT !.currentData = data,
              !.dom.tbody = [i \in 1..Len(data) |->
                                IF data[i] \in DOMAIN RenderedRows
                                THEN RenderedRows[data[i]]
                                ELSE RenderRow(data[i])],
              !.dom.resultsSectionHidden = FALSE]

\* --------------------------------------------------------------- handlers

\* The submit button is the form's trigger: a disabled button submits nothing.
TriggerEnabled == ~dom.searchBtnDisabled
\* The fallback button can be clicked while it and its section are shown.
FallbackTriggerShown == ~dom.noDataSectionHidden /\ ~dom.redrobSearchBtnHidden
\* The remove button is shown while a file name is displayed.
RemoveBtnShown == dom.fileNameDisplay /= <<>>

\* A faulty end of the local search, for contrast: a rejected
\* processLocalFile is taken for a search without result.
handleSearchLocalRejectionAsEmpty(m, r, attachment) ==
    IF Len(r.data) > 0
    THEN [m |-> renderTable(m, r.data),
          step |-> StepWith("handleSearch", "rendered", "local", attachment)]
    ELSE [m |-> showNoData(m),
          step |-> StepWith("handleSearch", "noData", "local", attachment)]

\* The end of handleSearch once processLocalFile has settled with r.
handleSearchLocal(m, r, attachment) ==
    IF ~r.ok
    THEN [m |-> showNotification(m, MsgSearchError, "error"),
          step |-> StepWith("handleSearch", "error", "local", attachment)]
    ELSE IF Len(r.data) > 0
    THEN [m |-> renderTable(m, r.data),
          step |-> StepWith("handleSearch", "rendered", "local", attachment)]
    ELSE [m |-> showNoData(m),
          step |-> StepWith("handleSearch", "noData", "local", attachment)]

\* handleSearch from the telemetry request on, the payload being valid.
handleSearchRoute(m, n, l, t, attachment, filePayload) ==
    IF filePayload.fileData.defined /\ isExcelOrCsv(filePayload)
    THEN handleSearchLocal(
             hideLoading(m),
             IF <<attachment[1], Criteria(n, l, t)>> \in DOMAIN LocalResults
             THEN LocalResults[attachment[1], Criteria(n, l, t)]
             ELSE processLocalFile(filePayload.fileData, Criteria(n, l, t)),
             attachment)
    ELSE [m |-> await(fetch(m, SHEET_WEBHOOK, n, l, t, attachment, <<>>),
                      Task("handleSearch:searchData", <<>>, <<>>, <<>>, <<>>)),
          step |-> StepWith("handleSearch", "searching", "remote", attachment)]

\* handleSearch from the validation to its end or to the awaited request.
handleSearchValidate(m, n, l, t, attachment, filePayload) ==
    IF ValidationFails(n, l, t, filePayload)
    THEN [m |-> showNotification(m, MsgValidation, "error"),
          step |-> Step("handleSearch", "validationError", "none")]
    ELSE handleSearchRoute(
             showLoading(resetUI(
                 fetch(m, TELEMETRY_WEBHOOK, n, l, t, <<>>, fileInput))),
             n, l, t, attachment, filePayload)

handleSearchRest(m, n, l, t, attachment) ==
    handleSearchValidate(m, n, l, t, attachment, PayloadOf(attachment))

\* A handler run r takes effect.
Run(r) == Commit(r.m) /\ step' = r.step

\* The submit event: handleSearch up to its first await, or to its end when
\* no file is selected in the input.
handleSearch ==
    /\ TriggerEnabled
    /\ Room
    /\ IF fileInput /= <<>>
       THEN /\ Commit(await(Now, Task("handleSearch:toBase64", fileInput,
                                      name, location, technology)))
            /\ step' = Step("handleSearch", "reading", "none")
       ELSE Run(handleSearchRest(Now, name, location, technology,
                                 cachedFilePayload))
    /\ UNCHANGED <<name, location, technology, fileInput>>
    /\ exhausted' = FALSE

\* toBase64 settles for a suspended handleSearch.
handleSearchRead(task, readOk, quotaExceeded) ==
    /\ BagIn(task, pending)
    /\ task.by = "handleSearch:toBase64"
    /\ IF readOk
       THEN Run(handleSearchRest(
                    saveFileToStorage(settle(Now, task), task.file, quotaExceeded),
                    task.name, task.location, task.technology, task.file))
       ELSE /\ Commit(showNotification(settle(Now, task), MsgFileFailed, "error"))
            /\ step' = Step("handleSearch", "readError", "none")
    /\ UNCHANGED <<name, location, technology, fileInput, exhausted>>

\* The request to the primary endpoint settles.
handleSearchSettle(task, response) ==
    /\ BagIn(task, pending)
    /\ task.by = "handleSearch:searchData"
    /\ LET m1 == hideLoading(settle(Now, task)) IN
       IF ~response.ok
       THEN /\ Commit(showNotification(m1, MsgSearchError, "error"))
            /\ step' = Step("handleSearch", "error", "remote")
       ELSE IF Len(response.data) > 0
       THEN /\ Commit(renderTable(m1, response.data))
            /\ step' = Step("handleSearch", "rendered", "remote")
       ELSE /\ Commit(showNoData(m1))
            /\ step' = Step("handleSearch", "noData", "remote")
    /\ UNCHANGED <<name, location, technology, fileInput, exhausted>>

\* A click on the fallback button: handleRedrobSearch up to its await.
handleRedrobSearch ==
    /\ FallbackTriggerShown
    /\ Room
    /\ LET m1 == showLoading([Now EXCEPT !.dom.noDataSectionHidden = TRUE])
           m2 == fetch(m1, REDROB_WEBHOOK, name, location, technology,
                       <<>>, <<>>)
       IN Commit(await(m2, Task("handleRedrobSearch:searchData",
                                <<>>, <<>>, <<>>, <<>>)))
    /\ step' = Step("handleRedrobSearch", "searching", "remote")
    /\ UNCHANGED <<name, location, technology, fileInput, exhausted>>

\* The request to the fallback endpoint settles.
handleRedrobSettle(task, response) ==
    /\ BagIn(task, pending)
    /\ task.by = "handleRedrobSearch:searchData"
    /\ LET m1 == hideLoading(settle(Now, task)) IN
       IF ~response.ok
       THEN /\ Commit(showNotification(m1,
                IF REDROB_WEBHOOK = "YOUR_REDROB_WEBHOOK_URL_HERE"
                THEN MsgRedrobPlaceholder ELSE MsgRedrobFailed, "error"))
            /\ step' = Step("handleRedrobSearch", "error", "remote")
       ELSE IF Len(response.data) > 0
       THEN /\ Commit(renderTable(m1, response.data))
            /\ step' = Step("handleRedrobSearch", "rendered", "remote")
       ELSE /\ Commit([showNoData(showNotification(m1, MsgRedrobNone, "error"))
                          EXCEPT !.dom.noDataText = TextStillNone,
                                 !.dom.redrobSearchBtnHidden = TRUE])
            /\ step' = Step("handleRedrobSearch", "noData", "remote")
    /\ UNCHANGED <<name, location, technology, fileInput>>
    /\ exhausted' = IF response.ok /\ Len(response.data) = 0 THEN TRUE ELSE exhausted

\* The user types into the form; no handler of the script runs.
input(c) ==
    /\ name' = c.name
    /\ location' = c.location
    /\ technology' = c.technology
    /\ UNCHANGED <<fileInput, cachedFilePayload, sessionStorage, currentData,
                   dom, pending, toasts, sent, downloads, step, exhausted>>

\* The user picks or drops a file: handleFileSelect up to its await.
handleFileSelect(file) ==
    /\ Room
    /\ fileInput' = <<file>>
    /\ Commit(await(updateFileUI(Now, FileOf(file).name),
                    Task("handleFileSelect:toBase64", <<file>>, <<>>, <<>>, <<>>)))
    /\ step' = Step("handleFileSelect", "reading", "none")
    /\ UNCHANGED <<name, location, technology, exhausted>>

\* toBase64 settles for a suspended handleFileSelect.
handleFileSelectRead(task, readOk, quotaExceeded) ==
    /\ BagIn(task, pending)
    /\ task.by = "handleFileSelect:toBase64"
    /\ IF readOk
       THEN /\ Commit(saveFileToStorage(settle(Now, task), task.file,
                                        quotaExceeded))
            /\ step' = Step("handleFileSelect",
                            IF quotaExceeded THEN "storageFull" ELSE "saved",
                            "none")
       ELSE /\ Commit(settle(Now, task))
            /\ step' = Step("handleFileSelect", "readError", "none")
    /\ UNCHANGED <<name, location, technology, fileInput, exhausted>>

clearFileStorage(m) == [m EXCEPT !.sessionStorage = <<>>]

\* A click on the remove button.
removeFile ==
    /\ RemoveBtnShown
    /\ fileInput' = <<>>
    /\ Commit(updateFileUI(clearFileStorage([Now EXCEPT !.cachedFilePayload = <<>>]),
                           <<>>))
    /\ step' = Step("removeFile", "done", "none")
    /\ UNCHANGED <<name, location, technology, exhausted>>

\* loadFileFromStorage, run once by the window's load event.
loadFileFromStorage(m) ==
    LET saved == m.sessionStorage IN
    IF saved /= <<>>
    THEN updateFileUI([m EXCEPT !.cachedFilePayload = saved],
                      PayloadOf(saved).fileName)
    ELSE m

\* A click on one of the three export buttons.
export(format) ==
    /\ Commit(CASE format = "csv" -> downloadCSV(Now)
                [] format = "xlsx" -> downloadExcel(Now)
                [] format = "pdf" -> downloadPDF(Now))
    /\ step' = Step(CASE format = "csv" -> "downloadCSV"
                      [] format = "xlsx" -> "downloadExcel"
                      [] format = "pdf" -> "downloadPDF",
                    "done", "none")
    /\ UNCHANGED <<name, location, technology, fileInput, exhausted>>

\* ---------------------------------------------------------- specification

\* The page once the script and the load event have run; saved is what the
\* session held of an attachment selected before a reload.
Loaded(saved, data) ==
    LET m0 == [cachedFilePayload |-> <<>>, sessionStorage |-> saved,
               currentData |-> <<>>, dom |-> InitialDom, pending |-> EmptyBag,
               toasts |-> <<>>, sent |-> <<>>, downloads |-> <<>>]
        m1 == loadFileFromStorage(m0)
    IN IF data = <<>> THEN m1 ELSE renderTable(m1, data)

InitWith(m) ==
    /\ name = <<>> /\ location = <<>> /\ technology = <<>>
    /\ fileInput = <<>>
    /\ cachedFilePayload = m.cachedFilePayload
    /\ sessionStorage = m.sessionStorage
    /\ currentData = m.currentData
    /\ dom = m.dom
    /\ pending = m.pending
    /\ toasts = m.toasts /\ sent = m.sent /\ downloads = m.downloads
    /\ step = Step("loadFileFromStorage", "done", "none")
    /\ exhausted = FALSE

Init ==
    \E saved \in {<<>>} \cup {<<f>> : f \in Files} :
        InitWith(Loaded(saved, <<>>))

Settles ==
    \E task \in BagToSet(pending) :
        \/ \E readOk \in BOOLEAN, quotaExceeded \in BOOLEAN :
               (readOk \/ ~quotaExceeded) /\ handleSearchRead(task, readOk, quotaExceeded)
        \/ \E readOk \in BOOLEAN, quotaExceeded \in BOOLEAN :
               (readOk \/ ~quotaExceeded) /\ handleFileSelectRead(task, readOk, quotaExceeded)
        \/ \E response \in Responses : handleSearchSettle(task, response)
        \/ \E response \in Responses : handleRedrobSettle(task, response)

Next ==
    \/ \E c \in FormInputs : input(c)
    \/ \E file \in Files : handleFileSelect(file)
    \/ removeFile
    \/ handleSearch
    \/ handleRedrobSearch
    \/ Settles

Spec == Init /\ [][Next]_vars

\* ----------------------------------------------------- the exports alone

\* Records a search can leave in currentData: a complete one whose location
\* holds a comma and quotes and whose technology holds markup characters, one
\* with a line break in its name and no other key, one whose phone is the
\* number 0, one with five empty texts (a local row without a matching
\* header), and the remote record with the key id.
RecFull ==
    << Prop(s_name, Str(<<"A","l">>)),
       Prop(s_location, Str(<<"C","h","i","c","a","g","o",","," ",
                              "\"","L","o","o","p","\"">>)),
       Prop(s_technology, Str(<<"C","<","&",">","'">>)),
       Prop(s_email, Str(<<"a","@","b">>)),
       Prop(s_phone, Num(<<"7">>)) >>

RecLines == << Prop(s_name, Str(<<"A","\n","B">>)) >>

RecZero ==
    << Prop(s_name, Str(<<"Z">>)),
       Prop(s_location, Str(<<"&","a","m","p",";">>)),
       Prop(s_technology, Str(<<"-">>)),
       Prop(s_email, Str(<<"\"">>)),
       Prop(s_phone, Num(<<"0">>)) >>

RecEmpty ==
    << Prop(s_name, Str(<<>>)), Prop(s_location, Str(<<>>)),
       Prop(s_technology, Str(<<>>)), Prop(s_email, Str(<<>>)),
       Prop(s_phone, Str(<<>>)) >>

ExportRecords == {RecFull, RecLines, RecZero, RecEmpty, RecAnn}

\* The result sequences of at most MaxRecords of these records.
ExportInputs == UNION {[1..n -> ExportRecords] : n \in 0..MaxRecords}

\* The page after a search has left data in currentData (rendered, unless
\* empty), and then any clicks on the export buttons.
InitExport == \E data \in ExportInputs : InitWith(Loaded(<<>>, data))

NextExport == \E format \in {"csv", "xlsx", "pdf"} : export(format)

SpecExport == InitExport /\ [][NextExport]_vars

\* ------------------------------------------------- the local search alone

\* The sheets of at most MaxRows rows.
SheetInputs == UNION {[1..n -> DOMAIN RowPool] : n \in 0..MaxRows}

\* What the user searches a sheet for.
LocalCriteria ==
    { Criteria(<<>>, <<>>, <<>>),
      Criteria(<<>>, t_austin, <<>>),
      Criteria(t_jane, <<>>, <<>>),
      Criteria(<<>>, <<>>, t_go),
      Criteria(<<"B","O","B">>, <<"b","o","s">>, <<"j","a","v","a">>),
      Criteria(<<>>, <<"0">>, <<>>) }

\* The page restored with a CSV file of such a sheet as cached attachment;
\* then the user types criteria and submits.
InitLocal ==
    \E rows \in SheetInputs : InitWith(Loaded(<<FileId("csv", rows)>>, <<>>))

NextLocal ==
    \/ \E c \in LocalCriteria : input(c)
    \/ handleSearch

SpecLocal == InitLocal /\ [][NextLocal]_vars

\* ------------------------------------------------------------ properties

\* The toast of a failed validation.
ValidationToast == [message |-> MsgValidation, type |-> "error"]

\* C1: a submission with the three criteria empty, no file selected in the
\* input and no cached attachment ends at once with the validation error
\* notification; it issues no request (neither the telemetry request nor a
\* search request), awaits nothing, and leaves the page as it was, with the
\* search button enabled and the loading indicator hidden.
C1_ValidationErrorNoRequest ==
    [][ ( /\ name = <<>> /\ location = <<>> /\ technology = <<>>
          /\ fileInput = <<>> /\ cachedFilePayload = <<>>
          /\ handleSearch )
        => ( /\ toasts' = <<ValidationToast>>
             /\ sent' = <<>>
             /\ pending' = pending
             /\ currentData' = currentData
             /\ dom' = dom
             /\ ~dom'.searchBtnDisabled
             /\ dom'.loadingStateHidden ) ]_vars

\* A submission of the empty form without attachment has just ended.
C1_Witness ==
    /\ step = Step("handleSearch", "validationError", "none")
    /\ name = <<>> /\ location = <<>> /\ technology = <<>>
    /\ fileInput = <<>> /\ cachedFilePayload = <<>>
    /\ toasts = <<ValidationToast>>
    /\ sent = <<>>

\* The awaited operations of the search flows.
FlowTasks ==
    {task \in BagToSet(pending) :
        task.by \in {"handleSearch:toBase64", "handleSearch:searchData",
                     "handleRedrobSearch:searchData"}}

\* How many search flows are in progress.
FlowsInProgress == BagCardinality([task \in FlowTasks |-> pending[task]])

\* The requests of the search flows that have not settled.
RequestAwaited ==
    \E task \in BagToSet(pending) :
        task.by \in {"handleSearch:searchData", "handleRedrobSearch:searchData"}

\* The idle page: the search button enabled, the loading indicator hidden.
Idle == ~dom.searchBtnDisabled /\ dom.loadingStateHidden

\* C4: while a search flow is in progress (a handleSearch or a
\* handleRedrobSearch that has started and not finished) the search button is
\* disabled, and no two flows are in progress at one time.
C4_TriggerDisabledWhileFlow ==
    FlowsInProgress > 0 => (dom.searchBtnDisabled /\ FlowsInProgress = 1)

\* C5: no failure leaves the button disabled or the indicator shown. The
\* page is idle right after a search request or a decoding has failed, and
\* it is idle whenever every awaited request has settled, so also after a
\* failed file read.
C5_IdleAfterFailure ==
    /\ step.outcome = "error" => Idle
    /\ ~RequestAwaited => Idle

\* The request to the primary endpoint has failed, and the page is idle.
C5_Witness ==
    /\ step = Step("handleSearch", "error", "remote")
    /\ toasts = <<[message |-> MsgSearchError, type |-> "error"]>>
    /\ pending = EmptyBag
    /\ Idle

\* An attachment that is a spreadsheet or a CSV file, by what the file is.
SpreadsheetLike(attachment) ==
    attachment /= <<>> /\ attachment[1].kind \in {"csv", "xlsx"}

\* The latest run routed a submission whose effective attachment is a
\* spreadsheet or a CSV file.
RoutedWithSpreadsheet ==
    step.handler = "handleSearch" /\ SpreadsheetLike(step.attachment)

\* The latest run is a submit event that started the read of the selected
\* file.
StartedRead == step = Step("handleSearch", "reading", "none")

\* The latest run ended a local search: it awaits no request.
LocalSearchEnded ==
    step.route = "local" /\ step.outcome \in {"rendered", "noData", "error"}

\* C3 as the specification states it: a submission routed to the local
\* path, from the submit event to its end, issues no request at all.
C3_LocalPathNoRequest ==
    /\ StartedRead => sent = <<>>
    /\ RoutedWithSpreadsheet => (LocalSearchEnded /\ sent = <<>>)

\* C3, amended: a submission routed to the local path issues no request to
\* the primary or the fallback search endpoint and awaits none; the one
\* request it issues is the telemetry request, which nothing awaits.
C3_LocalPathOnlyTelemetry ==
    /\ StartedRead => sent = <<>>
    /\ RoutedWithSpreadsheet
       => /\ LocalSearchEnded
          /\ Len(sent) = 1
          /\ sent[1].url = TELEMETRY_WEBHOOK

\* A local search over a selected CSV file has rendered its records.
C3_Witness ==
    /\ step = StepWith("handleSearch", "rendered", "local", fileInput)
    /\ SpreadsheetLike(fileInput)
    /\ currentData /= <<>>
    /\ Len(sent) = 1
    /\ sent[1].url = TELEMETRY_WEBHOOK

\* The NoResults page: the no-data section shown with its first wording and
\* the fallback button offered, the results hidden, no result kept, idle.
NoResults ==
    /\ ~dom.noDataSectionHidden
    /\ ~dom.redrobSearchBtnHidden
    /\ dom.noDataText = TextNoMatch
    /\ dom.resultsSectionHidden
    /\ currentData = <<>>
    /\ Idle

\* C6: when the primary search of a submission (remote or local) has settled
\* with no record, the page is in NoResults.
C6_EmptyPrimaryEndsInNoResults ==
    (step.handler = "handleSearch" /\ step.outcome = "noData") => NoResults

\* C7: when a fallback search settles with no record the page enters
\* ExhaustedNoResults (the no-data section shown with the wording "Still no
\* results", the fallback button hidden), and the fallback button stays
\* hidden, so that no further fallback request can be started, until the
\* form is submitted again.
C7_ExhaustedUntilSubmission ==
    /\ step = Step("handleRedrobSearch", "noData", "remote")
       => /\ ~dom.noDataSectionHidden
          /\ dom.noDataText = TextStillNone
          /\ dom.redrobSearchBtnHidden
    /\ exhausted => (dom.redrobSearchBtnHidden /\ ~FallbackTriggerShown)

\* C8: each export writes the five fields renderTable reads and nothing
\* else: its header is the five names and each of its rows has five values.
C8_ExportsOnlyRenderedFields ==
    \A i \in 1..Len(downloads) :
        /\ downloads[i].header \in {fields, PdfHead}
        /\ \A r \in 1..Len(downloads[i].rows) : Len(downloads[i].rows[r]) = 5

\* Decoding by the rules of RFC 4180. A character is inside a quoted value
\* when an odd number of quotes precedes it (the two quotes that stand for
\* one quote cancel); a comma or a line break outside quotes ends a value or
\* a row.
Outside(text, i) ==
    Cardinality({k \in 1..(i - 1) : text[k] = "\""}) % 2 = 0

\* The pieces of a text between the separators c that stand outside quotes.
CsvSplit(text, c) ==
    LET cuts == {0, Len(text) + 1}
                \cup {i \in 1..Len(text) : text[i] = c /\ Outside(text, i)}
        Cut(n) == CHOOSE a \in cuts : Cardinality({b \in cuts : b < a}) = n - 1
    IN [n \in 1..(Cardinality(cuts) - 1) |->
           SubSeq(text, Cut(n) + 1, Cut(n + 1) - 1)]

\* The value a piece stands for: without its enclosing quotes, and with one
\* quote for every two inside.
CsvUnquote(piece) ==
    IF Len(piece) >= 2 /\ piece[1] = "\"" /\ piece[Len(piece)] = "\""
    THEN LET inner == SubSeq(piece, 2, Len(piece) - 1)
             kept == {k \in 1..Len(inner) :
                         inner[k] /= "\"" \/ Outside(inner, k)}
             Kept(n) == CHOOSE k \in kept :
                            Cardinality({j \in kept : j < k}) = n - 1
         IN [n \in 1..Cardinality(kept) |-> inner[Kept(n)]]
    ELSE piece

ParseCsv(text) ==
    LET lines == CsvSplit(text, "\n") IN
    [r \in 1..Len(lines) |->
        LET pieces == CsvSplit(lines[r], ",") IN
        [j \in 1..Len(pieces) |-> CsvUnquote(pieces[j])]]

\* The number of lines of a text.
CsvLines(text) == 1 + Cardinality({i \in 1..Len(text) : text[i] = "\n"})

\* A value in double quotes, each quote of it doubled.
CsvQuoted(value) ==
    <<"\"">> \o replaceAll(value, "\"", <<"\"", "\"">>) \o <<"\"">>

\* The text of a header line and rows of values, every value quoted.
CsvQuotedText(rows) ==
    join(<<join(fields, <<",">>)>>
         \o [r \in 1..Len(rows) |->
                join([j \in 1..Len(rows[r]) |-> CsvQuoted(rows[r][j])], <<",">>)],
         <<"\n">>)

\* C9 as the specification states it: the CSV file has the header line and
\* then one line per record, and decoding it gives back the header and the
\* values the table shows.
C9_CsvDecodesToRenderedValues ==
    \A i \in 1..Len(downloads) :
        downloads[i].format = "csv"
        => /\ CsvLines(downloads[i].text) = 1 + Len(currentData)
           /\ ParseCsv(downloads[i].text) = <<fields>> \o dom.tbody

\* C9, amended: the CSV file is the header line followed by one row per
\* record in sequence order, the five values in the fixed order, each in
\* double quotes with its quotes doubled; decoding it gives back the header
\* and, for each field of each record, the value the table shows, except
\* that a field that is missing, empty or 0 decodes to the empty text where
\* the table shows "-". A row takes more than one line when a value holds a
\* line break.
C9_CsvDecodesToRecordValues ==
    \A i \in 1..Len(downloads) :
        downloads[i].format = "csv"
        => LET decoded == ParseCsv(downloads[i].text) IN
           /\ Len(decoded) = 1 + Len(currentData)
           /\ decoded[1] = fields
           /\ \A r \in 1..Len(currentData) :
                  decoded[r + 1] =
                      [j \in 1..5 |->
                          IF Falsy(Get(currentData[r], fields[j]))
                          THEN <<>> ELSE dom.tbody[r][j]]
           /\ downloads[i].text = CsvQuotedText(Tail(decoded))

\* The CSV file of the complete record (a comma and quotes in its location)
\* and of a record of empty values has been produced.
C9_Witness ==
    /\ currentData = <<RecFull, RecEmpty>>
    /\ Len(downloads) = 1
    /\ downloads[1].format = "csv"
    /\ step = Step("downloadCSV", "done", "none")

\* C10: with currentData empty, each export produces no file, shows no
\* notification and changes nothing of the page or the program's state.
C10_EmptyExportNoOp ==
    [][ (currentData = <<>> /\ NextExport)
        => ( /\ UNCHANGED programVars
             /\ downloads' = <<>>
             /\ toasts' = <<>>
             /\ sent' = <<>> ) ]_vars

\* An export button has been clicked with currentData empty.
C10_Witness ==
    /\ currentData = <<>>
    /\ step = Step("downloadPDF", "done", "none")
    /\ downloads = <<>>
    /\ toasts = <<>>

\* The lower-cased text of a field of the record the normalizer builds from
\* a row.
NormalizedText(row, field) == toLowerCase(String(Get(MapRow(row), field)))

\* Every non-empty criterion, lower-cased, is a substring of the row's
\* normalized field.
MatchesNormalized(row, criteria) ==
    /\ criteria.name = <<>>
       \/ includes(NormalizedText(row, s_name), toLowerCase(criteria.name))
    /\ criteria.location = <<>>
       \/ includes(NormalizedText(row, s_location), toLowerCase(criteria.location))
    /\ criteria.technology = <<>>
       \/ includes(NormalizedText(row, s_technology),
                   toLowerCase(criteria.technology))

\* The records of the rows of a sequence that match so.
MatchingRecords(rows, criteria) ==
    LET matching == SelectSeq(rows, LAMBDA row : MatchesNormalized(row, criteria))
    IN [i \in 1..Len(matching) |-> MapRow(matching[i])]

\* C2: a local search keeps exactly the rows of which every non-empty
\* criterion, lower-cased, is a substring of the lower-cased field the
\* normalizer resolves for the row (name; location, else city; tech, else
\* skill), in the order of the sheet.
C2_FilterAgreesWithNormalizer ==
    [][ (fileInput = <<>> /\ cachedFilePayload /= <<>> /\ handleSearch)
        => currentData' =
               MatchingRecords(
                   cleanBase64(PayloadOf(cachedFilePayload).fileData).rows,
                   Criteria(name, location, technology)) ]_vars

\* The requests the latest run sent to the fallback endpoint.
FallbackRequests == SelectSeq(sent, LAMBDA q : q.url = REDROB_WEBHOOK)

\* The page shows the outcome of a primary search without results: the
\* no-data section with its first wording, no table of results, no record
\* kept.
NoResultsShown ==
    /\ ~dom.noDataSectionHidden
    /\ dom.noDataText = TextNoMatch
    /\ dom.resultsSectionHidden
    /\ currentData = <<>>

\* C13: a request to the fallback endpoint is sent only by the run of
\* handleRedrobSearch that a click on the fallback button starts, one request
\* per click; the runs that settle a request, a failed fallback request
\* among them, send none; and the fallback button can be clicked only while
\* the page shows NoResults, the outcome of a primary search that gave no
\* record.
C13_FallbackOnlyByClickInNoResults ==
    /\ FallbackRequests /= <<>>
       => /\ step = Step("handleRedrobSearch", "searching", "remote")
          /\ Len(FallbackRequests) = 1
    /\ step = Step("handleRedrobSearch", "searching", "remote")
       => Len(FallbackRequests) = 1
    /\ FallbackTriggerShown => NoResultsShown

\* No file is chosen: the input is empty and no file name is displayed, as
\* removeFile leaves the page and as it stays until a file is selected.
NoFileChosen == fileInput = <<>> /\ dom.fileNameDisplay = <<>>

\* C14: once the attachment is removed and until another file is selected
\* there is no attachment anywhere: cachedFilePayload is null, sessionStorage
\* holds no record, and a submission made then carries no attachment,
\* whatever reads and submissions were pending at the removal.
C14_RemovedMeansNoAttachment ==
    [][ /\ NoFileChosen' => (cachedFilePayload' = <<>> /\ sessionStorage' = <<>>)
        /\ (NoFileChosen /\ handleSearch)
           => /\ step'.attachment = <<>>
              /\ \A i \in 1..Len(sent') :
                     sent'[i].payload = <<>> /\ sent'[i].file = <<>> ]_vars

\* The latest run ended the handling of a file selection, its file read, no
\* other selection's read is pending, and a file is selected.
SelectionHandled ==
    /\ step.handler = "handleFileSelect"
    /\ step.outcome \in {"saved", "storageFull"}
    /\ \A task \in BagToSet(pending) : task.by /= "handleFileSelect:toBase64"
    /\ fileInput /= <<>>

\* C15: when the handling of a file selection has finished, the cached
\* attachment, in memory and in sessionStorage, is the selected file and
\* never an earlier one: it is the selected file when the write succeeded,
\* and is nothing else than the selected file when the write failed for
\* size, in whichever order the reads of two selections complete.
C15_SelectionReplacesCache ==
    SelectionHandled
    => /\ cachedFilePayload \in {<<>>, fileInput}
       /\ sessionStorage \in {<<>>, fileInput}
       /\ step.outcome = "saved"
          => (cachedFilePayload = fileInput /\ sessionStorage = fileInput)

\* The records a search gave: none when it failed.
Produced(r) == IF r.ok THEN r.data ELSE <<>>

\* C16: when the flow of a submission finishes, currentData is exactly the
\* sequence of records this submission produced, and is empty when the
\* submission failed or found nothing: whether the flow ends with the answer
\* of the primary endpoint or with the local search of the cached or of the
\* selected file.
C16_ResultsReplacedWholesale ==
    [][ /\ \A task \in BagToSet(pending), response \in Responses :
               handleSearchSettle(task, response)
               => currentData' = Produced(response)
        /\ (fileInput = <<>> /\ handleSearch /\ step'.route = "local")
           => currentData' =
                  Produced(LocalResults[cachedFilePayload[1],
                                        Criteria(name, location, technology)])
        /\ \A task \in BagToSet(pending), quotaExceeded \in BOOLEAN :
               (handleSearchRead(task, TRUE, quotaExceeded)
                   /\ step'.route = "local")
               => currentData' =
                      Produced(LocalResults[task.file[1],
                                   Criteria(task.name, task.location,
                                            task.technology)]) ]_vars

\* The latest run searched locally an attachment that XLSX.read cannot
\* decode.
DecodeFailed ==
    /\ step.handler = "handleSearch"
    /\ step.route = "local"
    /\ step.attachment /= <<>>
    /\ ~FileOf(step.attachment[1]).content.ok

\* C17: when the decoding of the attachment fails in the local search, the
\* run ends with the error notification, the results section hidden and no
\* record kept, the no-data section and its fallback button not shown, and
\* no request to the primary or to the fallback endpoint.
C17_DecodeFailureAborts ==
    DecodeFailed
    => /\ step.outcome = "error"
       /\ toasts /= <<>>
       /\ toasts[Len(toasts)] = [message |-> MsgSearchError, type |-> "error"]
       /\ dom.resultsSectionHidden
       /\ currentData = <<>>
       /\ dom.noDataSectionHidden
       /\ ~FallbackTriggerShown
       /\ \A i \in 1..Len(sent) : sent[i].url = TELEMETRY_WEBHOOK

\* The local search of the selected workbook b.xlsx has failed.
C17_Witness ==
    /\ DecodeFailed
    /\ step = StepWith("handleSearch", "error", "local", <<BrokenXlsx>>)
    /\ fileInput = <<BrokenXlsx>>
    /\ toasts /= <<>>

\* C18: the results section and the no-data section are never both
\* visible, and the results section is visible only while currentData holds
\* a record.
C18_SectionsExclusive ==
    /\ dom.resultsSectionHidden \/ dom.noDataSectionHidden
    /\ ~dom.resultsSectionHidden => currentData /= <<>>

\* C19: once loadFileFromStorage has run, between the runs of the handlers,
\* cachedFilePayload and the record of sessionStorage agree: both absent or
\* both the same attachment. saveFileToStorage keeps it, also when its write
\* throws, and so do removeFile and every submission.
C19_CacheAgreesWithStorage == cachedFilePayload = sessionStorage

\* A write has thrown for a newly selected file while an earlier attachment
\* was cached: memory and storage both still hold the earlier one.
C19_Witness ==
    /\ step.handler = "handleFileSelect"
    /\ step.outcome = "storageFull"
    /\ cachedFilePayload /= <<>>
    /\ cachedFilePayload /= fileInput
    /\ cachedFilePayload = sessionStorage

\* C20: every request the latest run sent to a search endpoint, primary or
\* fallback, carries a non-empty name, location or technology, or an
\* attachment; a request to the fallback endpoint, which carries no
\* attachment, carries a non-empty criterion.
C20_RequestsCarryCriteria ==
    \A i \in 1..Len(sent) :
        sent[i].url \in {SHEET_WEBHOOK, REDROB_WEBHOOK}
        => \/ sent[i].name /= <<>>
           \/ sent[i].location /= <<>>
           \/ sent[i].technology /= <<>>
           \/ sent[i].payload /= <<>>

\* ----------------------------------------------- the routing of a search

\* The files of the routing: a CSV file, a file that is no spreadsheet, and
\* an Excel workbook named .xls whose type the browser does not know.
RouteFiles == {LeadsCsv, NotesPdf, OldXls}

InitRoute ==
    \E saved \in {<<>>} \cup {<<f>> : f \in RouteFiles} :
        InitWith(Loaded(saved, <<>>))

NextRoute ==
    \/ \E c \in FormInputs : input(c)
    \/ \E file \in RouteFiles : handleFileSelect(file)
    \/ removeFile
    \/ handleSearch
    \/ \E task \in BagToSet(pending), readOk \in BOOLEAN,
          quotaExceeded \in BOOLEAN :
           (readOk \/ ~quotaExceeded) /\ handleSearchRead(task, readOk, quotaExceeded)
    \/ \E task \in BagToSet(pending), readOk \in BOOLEAN,
          quotaExceeded \in BOOLEAN :
           (readOk \/ ~quotaExceeded) /\ handleFileSelectRead(task, readOk, quotaExceeded)
    \/ \E task \in BagToSet(pending), response \in Responses :
           handleSearchSettle(task, response)

SpecRoute == InitRoute /\ [][NextRoute]_vars

\* The file is a spreadsheet or a CSV file by its type or by its extension.
SpreadsheetFile(file) ==
    \/ includes(file.type, s_sheet)
    \/ includes(file.type, s_excel)
    \/ includes(file.type, s_csv)
    \/ \E ext \in {s_dotcsv, s_dotxlsx, <<".","x","l","s">>} :
           endsWith(toLowerCase(file.name), ext)


\* The run that ends now performed the one search step the attachment
\* calls for: the local search and no request to the primary endpoint for a
\* spreadsheet, one request to the primary endpoint carrying the attachment
\* otherwise.
SearchedBy(attachment) ==
    IF attachment /= <<>> /\ SpreadsheetFile(FileOf(attachment[1]))
    THEN /\ step'.route = "local"
         /\ SelectSeq(sent', LAMBDA q : q.url = SHEET_WEBHOOK) = <<>>
    ELSE /\ step'.route = "remote"
         /\ step'.outcome = "searching"
         /\ LET posts == SelectSeq(sent', LAMBDA q : q.url = SHEET_WEBHOOK)
            IN Len(posts) = 1 /\ posts[1].payload = attachment

\* C12: every validated submission performs exactly one primary search
\* step, chosen by its effective attachment (the selected file once read,
\* otherwise the cached attachment): the local search if and only if the
\* attachment is a spreadsheet or CSV file by type or extension, otherwise
\* one request to the primary endpoint carrying the attachment; a
\* spreadsheet is never sent to the primary endpoint.
C12_OneSearchStepByAttachment ==
    [][ /\ ( /\ fileInput = <<>>
             /\ ~( name = <<>> /\ location = <<>> /\ technology = <<>>
                   /\ cachedFilePayload = <<>> )
             /\ handleSearch )
           => SearchedBy(cachedFilePayload)
        /\ \A task \in BagToSet(pending), quotaExceeded \in BOOLEAN :
               handleSearchRead(task, TRUE, quotaExceeded)
               => SearchedBy(task.file) ]_vars

\* The parts of a header by which the normalizer recognises a field.
HeaderParts(field) ==
    CASE field = s_name -> {s_name}
      [] field = s_location -> {s_location, s_city}
      [] field = s_technology -> {s_tech, s_skill}
      [] field = s_email -> {s_email, s_mail}
      [] field = s_phone -> {s_phone, s_mobile, s_contact}

\* A header of the row matches the field.
HasHeaderFor(row, field) ==
    \E i \in 1..Len(row), part \in HeaderParts(field) :
        includes(toLowerCase(row[i].key), part)

\* The record has the five fields and no other, none undefined, and the
\* fields for which the row has no header are the empty text.
NormalizedFrom(row, record) ==
    /\ ObjectKeys(record) = fields
    /\ \A j \in 1..5 :
           /\ record[j].val.k /= "undefined"
           /\ ~HasHeaderFor(row, fields[j]) => record[j].val = Str(<<>>)

\* C11: the mapping of processLocalFile gives, for every row, a record with
\* the five fields, none of them undefined, and with the empty text for a
\* field no header of the row matches. Stated on the searches with the three
\* criteria empty, which keep every row of the sheet.
C11_NormalizerTotal ==
    [][ ( /\ name = <<>> /\ location = <<>> /\ technology = <<>>
          /\ fileInput = <<>> /\ cachedFilePayload /= <<>>
          /\ handleSearch )
        => LET rows == cleanBase64(PayloadOf(cachedFilePayload).fileData).rows
           IN /\ Len(currentData') = Len(rows)
              /\ \A i \in 1..Len(rows) :
                     NormalizedFrom(rows[i], currentData'[i]) ]_vars

====
